---- MODULE Spec2Model ----
(***************************************************************************)
(* Idle-transaction lifecycle controller of the Tracing integration        *)
(* (packages/apm/src/integrations/tracing.ts).                             *)
(*                                                                         *)
(* The static fields of the Tracing class are the variables.  Every        *)
(* handler (public static method, timer callback, DOM listener) is one     *)
(* action; its body is an operator from a state record to a state record,  *)
(* so that nested calls (startIdleTransaction -> finishIdleTransaction ->  *)
(* pushActivity, timer -> popActivity) compose as they do in the code.     *)
(*                                                                         *)
(* Time is counted in ticks.  A timer carries the ticks that remain until  *)
(* it is due; it may fire once that is 0 (it may fire late, never early).  *)
(***************************************************************************)
EXTENDS Integers, Sequences, FiniteSets, TLC

\* ---------------------------------------------------------------- bounds
MaxIndex == 3        \* pushActivity allocates ids 1..MaxIndex
MaxTx == 2           \* hub.startSpan creates transactions 1..MaxTx
RateScale == 2       \* sample rates and random draws are multiples of 1/RateScale
IdleTicks == 1       \* options.idleTimeout, in ticks
FallbackTicks == 1   \* the 100 ms used when options.idleTimeout is falsy, in ticks
MaxDuration == 2     \* options.maxTransactionDuration, in seconds
MaxTime == 4         \* the timestamps of an event are 0..MaxTime, in seconds

\* ---------------------------------------------------------------- state
VARIABLES
    options,            \* Tracing.options
    enabled,            \* Tracing._enabled: "undefined", "true" or "false"
    getCurrentHub,      \* Tracing._getCurrentHub is set
    listener,           \* the visibilitychange listener is registered
    setupDone,          \* setupOnce has run
    activeTransaction,  \* Tracing._activeTransaction: 0 is undefined
    nextTx,             \* identity of the next span hub.startSpan(.., true) creates
    currentIndex,       \* Tracing._currentIndex
    activities,         \* Tracing._activities: id -> Activity
    debounce,           \* Tracing._debounce: a timer handle, 0 initially
    finishTimers,       \* pending setTimeout(finishIdleTransaction) timers
    popTimers,          \* pending setTimeout(popActivity) timers
    activeFinished,     \* the span _activeTransaction refers to has been finished
    lastFinish,         \* the transaction the latest handler called finish on, or 0
    refinish,           \* ... and that transaction had been finished before
    discarded,          \* transactions dropped by the visibilitychange listener
    pushedUnder,        \* pushActivity was called from outside under the active transaction
    returned,           \* the ids pushActivity has returned so far, 0 apart
    event,              \* the event the global event processor was last called with
    delivered,          \* what it returned: null, or an event
    lastOp,             \* the latest handler
    ret                 \* its return value (pushActivity: id, startIdleTransaction: span)

vars == <<options, enabled, getCurrentHub, listener, setupDone, activeTransaction,
          nextTx, currentIndex, activities, debounce, finishTimers, popTimers,
          activeFinished, lastFinish, refinish, discarded, pushedUnder, returned,
          event, delivered, lastOp, ret>>

\* The state as one record, and its installation as the next state (of the record
\* r, evaluated once).  The record has one more field, trace: what a handler did,
\* in order, while it ran.
S ==
    [options |-> options, enabled |-> enabled, getCurrentHub |-> getCurrentHub,
     listener |-> listener, setupDone |-> setupDone,
     activeTransaction |-> activeTransaction, nextTx |-> nextTx,
     currentIndex |-> currentIndex, activities |-> activities,
     debounce |-> debounce, finishTimers |-> finishTimers, popTimers |-> popTimers,
     activeFinished |-> activeFinished, lastFinish |-> lastFinish,
     refinish |-> refinish, discarded |-> discarded,
     pushedUnder |-> pushedUnder, returned |-> returned,
     lastOp |-> lastOp, ret |-> ret, trace |-> <<>>]

Install(r) ==
    \E n \in {r} :
        /\ options' = n.options
        /\ enabled' = n.enabled
        /\ getCurrentHub' = n.getCurrentHub
        /\ listener' = n.listener
        /\ setupDone' = n.setupDone
        /\ activeTransaction' = n.activeTransaction
        /\ nextTx' = n.nextTx
        /\ currentIndex' = n.currentIndex
        /\ activities' = n.activities
        /\ debounce' = n.debounce
        /\ finishTimers' = n.finishTimers
        /\ popTimers' = n.popTimers
        /\ activeFinished' = n.activeFinished
        /\ lastFinish' = n.lastFinish
        /\ refinish' = n.refinish
        /\ discarded' = n.discarded
        /\ pushedUnder' = n.pushedUnder
        /\ returned' = n.returned
        /\ lastOp' = n.lastOp
        /\ ret' = n.ret
        /\ UNCHANGED <<event, delivered>>

\* A handler starts: nothing done yet, nothing returned yet.
Begin(s, op) ==
    [s EXCEPT !.trace = <<>>, !.lastOp = op, !.ret = 0,
              !.lastFinish = 0, !.refinish = FALSE]

Log(s, what, n) == [s EXCEPT !.trace = Append(@, <<what, n>>)]

\* ---------------------------------------------------------------- options
NotANumber == 0 - 1

NoOptions ==
    [defined |-> FALSE, tracesSampleRate |-> NotANumber,
     idleTimeout |-> 0, discardBackgroundSpans |-> FALSE,
     maxTransactionDuration |-> 0]

\* What new Tracing(_options) can leave in Tracing.options.
OptionChoices ==
    [defined : {TRUE}, tracesSampleRate : {NotANumber, 0, 2 * RateScale},
     idleTimeout : {IdleTicks}, discardBackgroundSpans : {TRUE},
     maxTransactionDuration : {MaxDuration}]

\* Rates and draws are counted in units of 1 / (2 * RateScale): a rate is an even
\* number of units in 0 .. 2 * RateScale; Math.random() is in [0, 1) and is drawn
\* from the odd numbers of units, the midpoints between two rates.
Draws == {2 * d + 1 : d \in 0 .. (RateScale - 1)}

\* Every sample rate in [0, 1], in those units.
Rates == {2 * k : k \in 0 .. RateScale}

\* Math.random() is called only while _enabled is undefined.
DrawsNow == IF enabled = "undefined" THEN Draws ELSE {1}

\* options argument of pushActivity: autoPopAfter, or none.
NoAutoPop == 0 - 1
AutoPopChoices == {NoAutoPop, IdleTicks}

\* spanData argument of popActivity.
SpanDataChoices == {"none", "status_ok"}

\* ---------------------------------------------------------------- gate
\* _isEnabled evaluating the sample rate on every call, whatever _enabled holds.
IsEnabledNoCache(s, u) ==
    IF ~s.options.defined \/ s.options.tracesSampleRate = NotANumber THEN FALSE
    ELSE ~(u > s.options.tracesSampleRate)

\* Tracing._isEnabled(): the value returned.
IsEnabled(s, u) ==
    IF s.enabled # "undefined" THEN s.enabled = "true"
    ELSE IF ~s.options.defined \/ s.options.tracesSampleRate = NotANumber THEN FALSE
    ELSE ~(u > s.options.tracesSampleRate)

\* _isEnabled caching false when there is no valid sample rate.
AfterIsEnabledCachesInvalid(s, u) ==
    IF s.enabled # "undefined" THEN s
    ELSE IF ~s.options.defined \/ s.options.tracesSampleRate = NotANumber
    THEN [s EXCEPT !.enabled = "false"]
    ELSE [s EXCEPT !.enabled =
              IF u > s.options.tracesSampleRate THEN "false" ELSE "true"]

\* Tracing._isEnabled(): the state it leaves.
AfterIsEnabled(s, u) ==
    IF s.enabled # "undefined" THEN s
    ELSE IF ~s.options.defined \/ s.options.tracesSampleRate = NotANumber THEN s
    ELSE [s EXCEPT !.enabled =
              IF u > s.options.tracesSampleRate THEN "false" ELSE "true"]

\* ---------------------------------------------------------------- timers
\* clearTimeout(handle): cancels the pending timer with that handle, if any.
ClearTimeout(s, h) ==
    IF \E t \in s.finishTimers : t.h = h
    THEN Log([s EXCEPT !.finishTimers = {t \in @ : t.h # h}], "cancel", h)
    ELSE s

\* A handle setTimeout has not handed out among those still known.
FreshHandle(s) ==
    CHOOSE h \in 1 .. (Cardinality(s.finishTimers) + 2) :
        /\ h # s.debounce
        /\ \A t \in s.finishTimers : t.h # h

\* The finish timer set with no delay.
SetDebounceAtOnce(s, timeout) ==
    LET h == FreshHandle(s)
    IN  Log([s EXCEPT !.finishTimers = @ \cup {[h |-> h, remaining |-> 0]},
                      !.debounce = h], "schedule", h)

\* Tracing._debounce = setTimeout(() => Tracing.finishIdleTransaction(), timeout)
SetDebounce(s, timeout) ==
    LET h == FreshHandle(s)
    IN  Log([s EXCEPT !.finishTimers = @ \cup {[h |-> h, remaining |-> timeout]},
                      !.debounce = h], "schedule", h)

\* setTimeout(() => Tracing.popActivity(id, ..), delay)
SetPopTimer(s, id, autoPop, delay) ==
    [s EXCEPT !.popTimers = @ \cup {[id |-> id, autoPop |-> autoPop, remaining |-> delay]}]

\* ---------------------------------------------------------------- controller
\* Tracing.finishIdleTransaction(): active.finish(true) on the active transaction;
\* _activeTransaction is left as it is.
FinishIdleTransaction(s) ==
    IF s.activeTransaction # 0
    THEN Log([s EXCEPT !.activeFinished = TRUE,
                       !.lastFinish = s.activeTransaction,
                       !.refinish = @ \/ s.activeFinished],
             "finish", s.activeTransaction)
    ELSE s

\* pushActivity without its clearTimeout(Tracing._debounce).
PushActivityNoClear(s, name, spanContext, autoPopAfter, hub, u) ==
    LET g == AfterIsEnabled(s, u)
    IN
    IF ~IsEnabled(s, u) THEN [g EXCEPT !.ret = 0]
    ELSE IF g.activeTransaction = 0 THEN [g EXCEPT !.ret = 0]
    ELSE
      LET index == g.currentIndex
          a == IF spanContext /\ g.getCurrentHub /\ ~hub
               THEN g
               ELSE Log([g EXCEPT
                            !.activities = [i \in DOMAIN @ \cup {index} |->
                                IF i = index
                                THEN [name |-> name, span |-> spanContext /\ g.getCurrentHub]
                                ELSE @[i]]],
                        "register", index)
          t == IF autoPopAfter # NoAutoPop
               THEN SetPopTimer(a, index, TRUE, autoPopAfter)
               ELSE a
      IN  [t EXCEPT !.currentIndex = index + 1, !.ret = index,
                    !.returned = @ \cup {index}]

\* pushActivity returning _currentIndex without incrementing it.
PushActivityNoIncrement(s, name, spanContext, autoPopAfter, hub, u) ==
    LET g == AfterIsEnabled(s, u)
    IN
    IF ~IsEnabled(s, u) THEN [g EXCEPT !.ret = 0]
    ELSE IF g.activeTransaction = 0 THEN [g EXCEPT !.ret = 0]
    ELSE
      LET c == ClearTimeout(g, g.debounce)
          index == c.currentIndex
          a == IF spanContext /\ c.getCurrentHub /\ ~hub
               THEN c
               ELSE Log([c EXCEPT
                            !.activities = [i \in DOMAIN @ \cup {index} |->
                                IF i = index
                                THEN [name |-> name, span |-> spanContext /\ c.getCurrentHub]
                                ELSE @[i]]],
                        "register", index)
          t == IF autoPopAfter # NoAutoPop
               THEN SetPopTimer(a, index, TRUE, autoPopAfter)
               ELSE a
      IN  [t EXCEPT !.ret = index, !.returned = @ \cup {index}]

\* pushActivity without its "no active transaction" return.
PushActivityNoTxCheck(s, name, spanContext, autoPopAfter, hub, u) ==
    LET g == AfterIsEnabled(s, u)
    IN
    IF ~IsEnabled(s, u) THEN [g EXCEPT !.ret = 0]
    ELSE
      LET c == ClearTimeout(g, g.debounce)
          index == c.currentIndex
          a == IF spanContext /\ c.getCurrentHub /\ ~hub
               THEN c
               ELSE Log([c EXCEPT
                            !.activities = [i \in DOMAIN @ \cup {index} |->
                                IF i = index
                                THEN [name |-> name, span |-> spanContext /\ c.getCurrentHub]
                                ELSE @[i]]],
                        "register", index)
          t == IF autoPopAfter # NoAutoPop
               THEN SetPopTimer(a, index, TRUE, autoPopAfter)
               ELSE a
      IN  [t EXCEPT !.currentIndex = index + 1, !.ret = index,
                    !.returned = @ \cup {index}]

\* Tracing.pushActivity(name, spanContext, {autoPopAfter})
PushActivity(s, name, spanContext, autoPopAfter, hub, u) ==
    LET g == AfterIsEnabled(s, u)
    IN
    IF ~IsEnabled(s, u) THEN [g EXCEPT !.ret = 0]
    ELSE IF g.activeTransaction = 0 THEN [g EXCEPT !.ret = 0]
    ELSE
      LET c == ClearTimeout(g, g.debounce)
          index == c.currentIndex
          a == IF spanContext /\ c.getCurrentHub
               THEN IF hub
                    THEN Log([c EXCEPT
                            !.activities = [i \in DOMAIN @ \cup {index} |->
                                IF i = index THEN [name |-> name, span |-> TRUE] ELSE @[i]]],
                        "register", index)
                    ELSE c
               ELSE Log([c EXCEPT
                            !.activities = [i \in DOMAIN @ \cup {index} |->
                                IF i = index THEN [name |-> name, span |-> FALSE] ELSE @[i]]],
                        "register", index)
          t == IF autoPopAfter # NoAutoPop
               THEN SetPopTimer(a, index, TRUE, autoPopAfter)
               ELSE a
      IN  [t EXCEPT !.currentIndex = index + 1, !.ret = index,
                    !.returned = @ \cup {index}]

\* The span of a popped activity: setData and setStatus for the keys of spanData,
\* then span.finish().  The trace gets the status the span is finished with.
PopSpan(s, id, spanData) ==
    Log(s, CASE spanData = "status_ok" -> "span finished: ok"
             [] spanData = "deadline_exceeded" -> "span finished: deadline_exceeded"
             [] OTHER -> "span finished: unset", id)

\* popActivity without its clearTimeout(Tracing._debounce).
PopActivityNoClear(s, id, spanData, u) ==
    LET g == AfterIsEnabled(s, u)
    IN
    IF ~IsEnabled(s, u) \/ id = 0 THEN g
    ELSE
      LET r == IF id \in DOMAIN g.activities
               THEN Log([(IF g.activities[id].span THEN PopSpan(g, id, spanData) ELSE g)
                         EXCEPT !.activities = [i \in DOMAIN @ \ {id} |-> @[i]]],
                        "remove", id)
               ELSE g
          count == Cardinality(DOMAIN r.activities)
      IN  IF count = 0 /\ r.activeTransaction # 0
          THEN SetDebounce(r, IF r.options.defined THEN r.options.idleTimeout ELSE 0)
          ELSE r

\* popActivity scheduling the finish timer only when it removed an activity.
PopActivityScheduleOnRemove(s, id, spanData, u) ==
    LET g == AfterIsEnabled(s, u)
    IN
    IF ~IsEnabled(s, u) \/ id = 0 THEN g
    ELSE IF id \in DOMAIN g.activities
    THEN
      LET r == Log([(IF g.activities[id].span THEN PopSpan(g, id, spanData) ELSE g)
                    EXCEPT !.activities = [i \in DOMAIN @ \ {id} |-> @[i]]],
                   "remove", id)
          c == ClearTimeout(r, r.debounce)
      IN  IF Cardinality(DOMAIN r.activities) = 0 /\ c.activeTransaction # 0
          THEN SetDebounce(c, IF c.options.defined THEN c.options.idleTimeout ELSE 0)
          ELSE c
    ELSE ClearTimeout(g, g.debounce)

\* Tracing.popActivity(id, spanData)
PopActivity(s, id, spanData, u) ==
    LET g == AfterIsEnabled(s, u)
    IN
    IF ~IsEnabled(s, u) \/ id = 0 THEN g
    ELSE
      LET r == IF id \in DOMAIN g.activities
               THEN Log([(IF g.activities[id].span THEN PopSpan(g, id, spanData) ELSE g)
                         EXCEPT !.activities = [i \in DOMAIN @ \ {id} |-> @[i]]],
                        "remove", id)
               ELSE g
          count == Cardinality(DOMAIN r.activities)
          c == ClearTimeout(r, r.debounce)
      IN  IF count = 0 /\ c.activeTransaction # 0
          THEN SetDebounce(c, IF c.options.defined THEN c.options.idleTimeout ELSE 0)
          ELSE c

\* The auto-pop callback calling popActivity(index) without the span data.
PopTimerCallbackNoStatus(s, t, u) ==
    PopActivity([s EXCEPT !.popTimers = @ \ {t}], t.id, "none", u)

\* The callback of a setTimeout of startIdleTransaction (popActivity(id)) or of
\* pushActivity (popActivity(index, {autoPop: true, status: DeadlineExceeded})).
PopTimerCallback(s, t, u) ==
    PopActivity([s EXCEPT !.popTimers = @ \ {t}],
                t.id, IF t.autoPop THEN "deadline_exceeded" ELSE "none", u)

\* startIdleTransaction calling finishIdleTransaction after it has bound the new span.
StartIdleTransactionBindFirst(s, hub, u) ==
    LET g == AfterIsEnabled(s, u)
    IN
    IF ~IsEnabled(s, u) THEN g
    ELSE IF ~g.getCurrentHub \/ ~hub THEN FinishIdleTransaction(g)
    ELSE
      LET span == g.nextTx
          b == Log([g EXCEPT !.activeTransaction = span, !.nextTx = span + 1,
                             !.activeFinished = FALSE, !.pushedUnder = FALSE],
                   "bind", span)
          f == FinishIdleTransaction(b)
          p == PushActivity(f, "idleTransactionStarted", FALSE, NoAutoPop, hub, u)
          t == SetPopTimer(p, p.ret, FALSE,
                           IF p.options.defined /\ p.options.idleTimeout # 0
                           THEN p.options.idleTimeout ELSE FallbackTicks)
      IN  [t EXCEPT !.ret = span]

\* Tracing.startIdleTransaction(name, spanContext)
StartIdleTransaction(s, hub, u) ==
    LET g == AfterIsEnabled(s, u)
    IN
    IF ~IsEnabled(s, u) THEN g
    ELSE
      LET f == FinishIdleTransaction(g)
      IN
      IF ~f.getCurrentHub THEN f
      ELSE IF ~hub THEN f
      ELSE
        LET span == f.nextTx
            b == Log([f EXCEPT !.activeTransaction = span, !.nextTx = span + 1,
                               !.activeFinished = FALSE, !.pushedUnder = FALSE],
                     "bind", span)
            p == PushActivity(b, "idleTransactionStarted", FALSE, NoAutoPop, hub, u)
            t == SetPopTimer(p, p.ret, FALSE,
                             IF p.options.defined /\ p.options.idleTimeout # 0
                             THEN p.options.idleTimeout ELSE FallbackTicks)
        IN  [t EXCEPT !.ret = span]

\* The listener clearing _activeTransaction only, not the registry.
VisibilityChangeKeepsActivities(s, hidden) ==
    IF hidden /\ s.activeTransaction # 0
    THEN Log([s EXCEPT !.discarded = @ \cup {s.activeTransaction},
                       !.activeTransaction = 0,
                       !.activeFinished = FALSE], "discard", s.activeTransaction)
    ELSE s

\* The listener clearing the registry only, not _activeTransaction.
VisibilityChangeKeepsActive(s, hidden) ==
    IF hidden /\ s.activeTransaction # 0
    THEN Log([s EXCEPT !.discarded = @ \cup {s.activeTransaction},
                       !.activities = <<>>], "discard", s.activeTransaction)
    ELSE s

\* The visibilitychange listener registered by setupOnce.
VisibilityChange(s, hidden) ==
    IF hidden /\ s.activeTransaction # 0
    THEN Log([s EXCEPT !.discarded = @ \cup {s.activeTransaction},
                       !.activeTransaction = 0,
                       !.activeFinished = FALSE,
                       !.activities = <<>>], "discard", s.activeTransaction)
    ELSE s

\* Tracing.setupOnce(addGlobalEventProcessor, getCurrentHub)
SetupOnce(s, hub, location, document, u) ==
    LET h == [s EXCEPT !.getCurrentHub = TRUE, !.setupDone = TRUE]
        g == AfterIsEnabled(h, u)
    IN
    IF ~IsEnabled(h, u) THEN g
    ELSE
      LET t == IF location THEN StartIdleTransaction(g, hub, u) ELSE g
      IN  [t EXCEPT !.listener = t.options.discardBackgroundSpans /\ document,
                    !.ret = 0]

\* ---------------------------------------------------------------- event filter
\* A field of an event that is not there.
Missing == 0 - 1

NoEvent == [type |-> "none", timestamp |-> Missing, start_timestamp |-> Missing]

\* The events the processor is handed.
Events ==
    [type : {"transaction", "event"},
     timestamp : {Missing} \cup (0 .. MaxTime),
     start_timestamp : {Missing} \cup (0 .. MaxTime)]

\* x && ..: undefined and 0 are falsy.
Truthy(x) == x # Missing /\ x # 0

\* The global event processor setupOnce adds; self is whether the hub has the
\* integration.
EventProcessor(s, e, self, u) ==
    IF ~self THEN [null |-> FALSE, event |-> e]
    ELSE
      LET isOutdatedTransaction ==
              /\ Truthy(e.timestamp)
              /\ Truthy(e.start_timestamp)
              /\ \/ e.timestamp - e.start_timestamp > s.options.maxTransactionDuration
                 \/ e.timestamp - e.start_timestamp < 0
      IN  IF /\ IsEnabled(s, u)
             /\ s.options.maxTransactionDuration # 0
             /\ e.type = "transaction"
             /\ isOutdatedTransaction
          THEN [null |-> TRUE, event |-> NoEvent]
          ELSE [null |-> FALSE, event |-> e]

\* ---------------------------------------------------------------- actions
Init ==
    /\ options = NoOptions
    /\ enabled = "undefined"
    /\ getCurrentHub = FALSE
    /\ listener = FALSE
    /\ setupDone = FALSE
    /\ activeTransaction = 0
    /\ nextTx = 1
    /\ currentIndex = 1
    /\ activities = <<>>
    /\ debounce = 0
    /\ finishTimers = {}
    /\ popTimers = {}
    /\ activeFinished = FALSE
    /\ lastFinish = 0
    /\ refinish = FALSE
    /\ discarded = {}
    /\ pushedUnder = FALSE
    /\ returned = {}
    /\ event = NoEvent
    /\ delivered = [null |-> FALSE, event |-> NoEvent]
    /\ lastOp = "init"
    /\ ret = 0

\* new Tracing(_options): before setupOnce and before the gate has decided, or,
\* with other options, once the gate has said no.
Constructor ==
    /\ \/ ~setupDone /\ enabled = "undefined"
       \/ enabled = "false"
    /\ \E o \in OptionChoices :
        Install([Begin(S, "constructor") EXCEPT !.options = o])

SetupOnceCall ==
    /\ options.defined
    /\ ~setupDone
    /\ nextTx <= MaxTx
    /\ currentIndex <= MaxIndex
    /\ \E hub \in BOOLEAN, location \in BOOLEAN, document \in {TRUE}, u \in DrawsNow :
        Install(SetupOnce(Begin(S, "setupOnce"), hub, location, document, u))

StartIdleTransactionCall ==
    /\ nextTx <= MaxTx
    /\ currentIndex <= MaxIndex
    /\ \E hub \in BOOLEAN, u \in DrawsNow :
        Install(StartIdleTransaction(Begin(S, "startIdleTransaction"), hub, u))

PushActivityCall ==
    /\ currentIndex <= MaxIndex
    /\ \E spanContext \in BOOLEAN, autoPopAfter \in AutoPopChoices,
          hub \in BOOLEAN, u \in DrawsNow :
        Install(PushActivity(
            [Begin(S, "pushActivity") EXCEPT
                !.pushedUnder = @ \/ activeTransaction # 0],
            "activity", spanContext, autoPopAfter, hub, u))

PopActivityCall ==
    \E id \in 0 .. currentIndex, spanData \in SpanDataChoices, u \in DrawsNow :
        Install(PopActivity(Begin(S, "popActivity"), id, spanData, u))

FinishIdleTransactionCall ==
    Install(FinishIdleTransaction(Begin(S, "finishIdleTransaction")))

VisibilityChangeEvent ==
    /\ listener
    /\ \E hidden \in BOOLEAN :
        Install(VisibilityChange(Begin(S, "visibilitychange"), hidden))

\* The timer stored in _debounce fires: () => Tracing.finishIdleTransaction()
FinishTimerFires ==
    \E s \in {Begin(S, "finishTimer")}, t \in finishTimers :
        /\ t.remaining = 0
        /\ Install(FinishIdleTransaction([s EXCEPT !.finishTimers = @ \ {t}]))

\* A bootstrap or auto-pop timer fires: () => Tracing.popActivity(id, ..)
PopTimerFires ==
    \E s \in {Begin(S, "popTimer")}, t \in popTimers, u \in DrawsNow :
        /\ t.remaining = 0
        /\ Install(PopTimerCallback(s, t, u))

\* One tick passes.
Tick ==
    /\ \E t \in finishTimers \cup popTimers : t.remaining > 0
    /\ finishTimers' = {[t EXCEPT !.remaining = IF @ > 0 THEN @ - 1 ELSE 0] : t \in finishTimers}
    /\ popTimers' = {[t EXCEPT !.remaining = IF @ > 0 THEN @ - 1 ELSE 0] : t \in popTimers}
    /\ lastOp' = "tick"
    /\ lastFinish' = 0
    /\ refinish' = FALSE
    /\ ret' = 0
    /\ UNCHANGED <<options, enabled, getCurrentHub, listener, setupDone,
                   activeTransaction, nextTx, currentIndex, activities,
                   debounce, activeFinished, discarded, pushedUnder, returned,
                   event, delivered>>

Next ==
    \/ Constructor
    \/ SetupOnceCall
    \/ StartIdleTransactionCall
    \/ PushActivityCall
    \/ PopActivityCall
    \/ FinishIdleTransactionCall
    \/ VisibilityChangeEvent
    \/ FinishTimerFires
    \/ PopTimerFires
    \/ Tick

Spec == Init /\ [][Next]_vars

\* Timers: time passes, and a timer that stays due fires.  The calls from outside
\* (adapters, the page) are under no obligation.
FairSpec ==
    /\ Spec
    /\ WF_vars(Tick)
    /\ WF_vars(FinishTimerFires)
    /\ WF_vars(PopTimerFires)

\* The event filter by itself.  setupOnce adds the processor after the gate has
\* said yes (line 181), so the gate is decided whenever the processor runs, and the
\* processor writes no field of the controller: it starts from the state that
\* new Tracing(o) and setupOnce() leave on a page without a location, for every
\* maxTransactionDuration, and is handed every event.
FilterOptionChoices ==
    [defined : {TRUE}, tracesSampleRate : {2 * RateScale},
     idleTimeout : {IdleTicks}, discardBackgroundSpans : {TRUE},
     maxTransactionDuration : {0, MaxDuration}]

FilterInit ==
    /\ options \in FilterOptionChoices
    /\ enabled = "true"
    /\ getCurrentHub = TRUE
    /\ listener = TRUE
    /\ setupDone = TRUE
    /\ activeTransaction = 0
    /\ nextTx = 1
    /\ currentIndex = 1
    /\ activities = <<>>
    /\ debounce = 0
    /\ finishTimers = {}
    /\ popTimers = {}
    /\ activeFinished = FALSE
    /\ lastFinish = 0
    /\ refinish = FALSE
    /\ discarded = {}
    /\ pushedUnder = FALSE
    /\ returned = {}
    /\ event = NoEvent
    /\ delivered = [null |-> FALSE, event |-> NoEvent]
    /\ lastOp = "setupOnce"
    /\ ret = 0

\* The pipeline hands an event to the processor.
EventProcessorCall ==
    \E e \in Events, self \in BOOLEAN, u \in DrawsNow :
        /\ event' = e
        /\ delivered' = EventProcessor(S, e, self, u)
        /\ enabled' = IF self THEN AfterIsEnabled(S, u).enabled ELSE enabled
        /\ lastOp' = "eventProcessor"
        /\ lastFinish' = 0
        /\ refinish' = FALSE
        /\ ret' = 0
        /\ UNCHANGED <<options, getCurrentHub, listener, setupDone, activeTransaction,
                       nextTx, currentIndex, activities, debounce, finishTimers,
                       popTimers, activeFinished, discarded, pushedUnder, returned>>

FilterNext == EventProcessorCall

FilterSpec == FilterInit /\ [][FilterNext]_vars

\* ---------------------------------------------------------------- claims
\* The inputs a call may be given in any state.
AnyId == 0 .. (MaxIndex + 1)
AnySpanData == SpanDataChoices \cup {"deadline_exceeded"}

\* The positions of the trace of r where `what` was done.
Where(r, what) == {i \in DOMAIN r.trace : r.trace[i][1] = what}

\* C1: pushActivity called while the gate is false or no transaction is active
\* returns 0 and leaves the registry, the id counter, the active transaction, the
\* pending finish timer and the auto-pop timers as they were.
C1_PushRejectedChangesNothing ==
    \A spanContext \in BOOLEAN, autoPopAfter \in AutoPopChoices,
       hub \in BOOLEAN, u \in DrawsNow :
        LET r == PushActivity(Begin(S, "pushActivity"), "activity", spanContext,
                              autoPopAfter, hub, u)
        IN  (~IsEnabled(S, u) \/ activeTransaction = 0) =>
                /\ r.ret = 0
                /\ r.activities = activities
                /\ r.currentIndex = currentIndex
                /\ r.activeTransaction = activeTransaction
                /\ r.finishTimers = finishTimers
                /\ r.debounce = debounce
                /\ r.popTimers = popTimers

\* C1: the gate is open, a transaction was started and dropped, and a pushActivity
\* call has just returned 0.
C1_Witness ==
    /\ lastOp = "pushActivity"
    /\ ret = 0
    /\ enabled = "true"
    /\ activeTransaction = 0
    /\ discarded # {}

\* What C2 compares: the registry, the active transaction, whether a finish timer is
\* pending, and the spans and transactions finished.
Observable(r) ==
    [activities |-> r.activities,
     activeTransaction |-> r.activeTransaction,
     finishPending |-> r.finishTimers # {},
     finished |-> {r.trace[i] : i \in DOMAIN r.trace \ (Where(r, "cancel") \cup Where(r, "schedule"))},
     activeFinished |-> r.activeFinished]

\* C2: popActivity(id) called twice in a row leaves what popActivity(id) called
\* once leaves.
C2_PopIdempotent ==
    \A id \in AnyId, spanData \in AnySpanData, u1 \in DrawsNow, u2 \in DrawsNow :
        \A once \in {PopActivity(Begin(S, "popActivity"), id, spanData, u1)} :
            \A twice \in {PopActivity(once, id, spanData, u2)} :
                Observable(twice) = Observable(once)

\* C2: a popActivity call has emptied the registry of an active transaction, and
\* the same call made again would take the finish timer down and set a new one.
C2_Witness ==
    /\ lastOp = "popActivity"
    /\ activeTransaction # 0
    /\ activities = <<>>
    /\ finishTimers # {}
    /\ \E id \in 1 .. (currentIndex - 1) :
          Where(PopActivity(Begin(S, "popActivity"), id, "none", 1), "schedule") # {}

\* C3: popActivity(id) with id = 0 or id not in the registry changes nothing; it
\* does not cancel, create or reschedule the finish timer.
C3_PopAbsentChangesNothing ==
    \A id \in AnyId, spanData \in AnySpanData, u \in DrawsNow :
        LET r == PopActivity(Begin(S, "popActivity"), id, spanData, u)
        IN  (id = 0 \/ id \notin DOMAIN activities) =>
                /\ r.finishTimers = finishTimers
                /\ r.debounce = debounce
                /\ r.activities = activities
                /\ r.activeTransaction = activeTransaction

\* C4: startIdleTransaction called while t1 is active calls finish on t1 in that
\* call, and binds the new transaction, if it binds one, after that.
C4_FinishBeforeBind ==
    \A hub \in BOOLEAN, u \in DrawsNow :
        LET r == StartIdleTransaction(Begin(S, "startIdleTransaction"), hub, u)
            t1 == activeTransaction
        IN  t1 # 0 =>
              \E i \in Where(r, "finish") :
                /\ r.trace[i][2] = t1
                /\ \A j \in Where(r, "bind") :
                      /\ i < j
                      /\ r.trace[j][2] # t1
                      /\ r.trace[j][2] = r.activeTransaction

\* C4: startIdleTransaction has just replaced transaction 1, which it finished, by
\* transaction 2.
C4_Witness ==
    /\ lastOp = "startIdleTransaction"
    /\ ret = 2
    /\ activeTransaction = 2
    /\ lastFinish = 1

\* C5: no transaction ever receives a second finish call.
C5_FinishedAtMostOnce == ~refinish

\* C6: after a finishIdleTransaction call that finished a transaction, no
\* transaction is active.
C6_FinishClearsActive ==
    (lastOp = "finishIdleTransaction" /\ lastFinish # 0) => activeTransaction = 0

\* C7: right after a startIdleTransaction that returned a transaction, the registry
\* holds the bootstrap activity of that transaction and nothing else.
C7_StartLeavesOnlyBootstrap ==
    (lastOp = "startIdleTransaction" /\ ret # 0) =>
        DOMAIN activities = {currentIndex - 1}

\* C8: a transaction under which pushActivity was never called from outside is
\* eventually finished by the timers alone.  So, as long as it is active and not
\* finished, a timer is pending: with none, nothing is left to finish it.
C8_UnpushedTransactionHasTimer ==
    (activeTransaction # 0 /\ ~activeFinished /\ ~pushedUnder) =>
        finishTimers \cup popTimers # {}

\* C9: once a popActivity call has left the registry of an active, unfinished
\* transaction empty and a finish timer pending, a finish timer fires (or the
\* transaction is finished some other way), unless pushActivity,
\* startIdleTransaction or the background discard comes first.
C9_IdleFinishes ==
    [](( /\ lastOp = "popActivity"
         /\ activeTransaction # 0
         /\ ~activeFinished
         /\ activities = <<>>
         /\ finishTimers # {} )
       => <>( \/ lastOp \in {"finishTimer", "pushActivity", "startIdleTransaction",
                              "setupOnce", "visibilitychange"}
              \/ lastFinish # 0 ))

\* C10: the hidden signal, with a transaction T active, clears the active
\* transaction and the registry and calls no finish; and no handler ever calls
\* finish on a transaction that was discarded.
C10_DiscardIsSilent ==
    /\ activeTransaction # 0 =>
          LET r == VisibilityChange(Begin(S, "visibilitychange"), TRUE)
          IN  /\ r.activeTransaction = 0
              /\ r.activities = <<>>
              /\ Where(r, "finish") = {}
              /\ activeTransaction \in r.discarded
    /\ lastFinish \notin discarded
    /\ activeTransaction \notin discarded

\* C10: transaction 1 was discarded while its finish timer was pending, and that
\* timer has just fired without finishing anything.
C10_Witness ==
    /\ lastOp = "finishTimer"
    /\ 1 \in discarded
    /\ activeTransaction = 0
    /\ lastFinish = 0

\* C11: whenever no transaction is active, the activity registry is empty.
C11_NoTransactionNoActivities ==
    activeTransaction = 0 => activities = <<>>

\* C11: the hidden signal has just dropped transaction 1 while activities of it
\* were open (their timers are still pending), and the registry is empty.
C11_Witness ==
    /\ lastOp = "visibilitychange"
    /\ activeTransaction = 0
    /\ 1 \in discarded
    /\ activities = <<>>
    /\ Cardinality(popTimers) >= 2

\* C12: at most one finish timer is pending, and it is the one _debounce holds: a
\* timer scheduled earlier was cancelled before the next one was scheduled.
C12_OneFinishTimer ==
    [](
        /\ Cardinality(finishTimers) <= 1
        /\ \A t \in finishTimers : t.h = debounce
        /\ finishTimers # {} =>
              \A id \in AnyId, spanData \in AnySpanData, u \in DrawsNow :
                  \A r \in {PopActivity(Begin(S, "popActivity"), id, spanData, u)} :
                      \A i \in Where(r, "schedule") :
                          \E j \in Where(r, "cancel") : j < i)

\* C12: a popActivity call has just replaced a pending finish timer by a second one.
C12_Witness ==
    /\ lastOp = "popActivity"
    /\ debounce = 2
    /\ Cardinality(finishTimers) = 1
    /\ activeTransaction # 0

\* C13: every pushActivity call that is not a no-op, the one startIdleTransaction
\* makes for the bootstrap activity included, returns an id greater than 0 and
\* greater than every id returned before; 0 is never a key of the registry.
C13_IdsIncrease ==
    [](
        /\ 0 \notin DOMAIN activities
        /\ \A spanContext \in BOOLEAN, autoPopAfter \in AutoPopChoices,
              hub \in BOOLEAN, u \in DrawsNow :
              \A r \in {PushActivity(Begin(S, "pushActivity"), "activity", spanContext,
                                      autoPopAfter, hub, u)} :
                  r.ret # 0 =>
                    /\ r.ret > 0
                    /\ \A k \in returned : r.ret > k
                    /\ r.returned = returned \cup {r.ret}
        /\ \A hub \in BOOLEAN, u \in DrawsNow :
              \A r \in {StartIdleTransaction(Begin(S, "startIdleTransaction"), hub, u)} :
                  \A id \in r.returned \ returned :
                    id > 0 /\ \A k \in returned : id > k)

\* C13: transaction 1 was dropped in the background, transaction 2 was started, and
\* a pushActivity call under it has just returned 3, after 1 and 2.
C13_Witness ==
    /\ lastOp = "pushActivity"
    /\ ret = 3
    /\ returned = {1, 2, 3}
    /\ 1 \in discarded
    /\ activeTransaction = 2

\* C14: once the gate has decided, the decision stays for good, and every call of
\* the gate returns it without a draw, whatever sample rate is configured by then.
C14_GateStable ==
    /\ [](enabled # "undefined" =>
            \A rate \in Rates \cup {NotANumber}, u \in Draws :
                LET s == [S EXCEPT !.options.tracesSampleRate = rate]
                IN  /\ IsEnabled(s, u) = (enabled = "true")
                    /\ AfterIsEnabled(s, u).enabled = enabled)
    /\ [][enabled # "undefined" => enabled' = enabled]_vars

\* C14: the gate said no under sample rate 0, the sample rate was then set to 1, and
\* a pushActivity call has just been turned down all the same.
C14_Witness ==
    /\ lastOp = "pushActivity"
    /\ ret = 0
    /\ enabled = "false"
    /\ options.tracesSampleRate = 2 * RateScale

\* C15: a transaction event with both timestamps is dropped exactly when
\* maxTransactionDuration is not 0 and its duration is above maxTransactionDuration
\* or below 0, a timestamp of 0 included; an event that is not dropped is returned
\* as it came.
C15_FilterDropsByDuration ==
    \A e \in Events, u \in DrawsNow :
        (e.type = "transaction" /\ e.timestamp # Missing /\ e.start_timestamp # Missing) =>
            LET r == EventProcessor(S, e, TRUE, u)
                duration == e.timestamp - e.start_timestamp
                max == options.maxTransactionDuration
            IN  /\ r.null <=> (max # 0 /\ (duration > max \/ duration < 0))
                /\ ~r.null => r.event = e

\* C16: pushActivity with autoPopAfter sets a timer for the activity it registers;
\* that timer, when it fires, removes the activity and finishes its span, if it has
\* one, with status DeadlineExceeded; and an activity whose auto-pop timer is
\* pending is eventually out of the registry.
C16_AutoPopRemoves ==
    /\ [](\A spanContext \in BOOLEAN, hub \in BOOLEAN, u \in DrawsNow :
            \A r \in {PushActivity(Begin(S, "pushActivity"), "activity", spanContext,
                                    IdleTicks, hub, u)} :
                r.ret \in DOMAIN r.activities =>
                    [id |-> r.ret, autoPop |-> TRUE, remaining |-> IdleTicks] \in r.popTimers)
    /\ [](\A t \in popTimers, u \in DrawsNow :
            (t.autoPop /\ t.id \in DOMAIN activities) =>
                \A r \in {PopTimerCallback(Begin(S, "popTimer"), t, u)} :
                    /\ t.id \notin DOMAIN r.activities
                    /\ activities[t.id].span =>
                          \E i \in DOMAIN r.trace :
                              r.trace[i] = <<"span finished: deadline_exceeded", t.id>>)
    /\ \A id \in 1 .. (MaxIndex + 1) :
          [](( /\ id \in DOMAIN activities
               /\ \E t \in popTimers : t.id = id /\ t.autoPop )
             => <>(id \notin DOMAIN activities))

\* C16: the auto-pop timer of activity 2, which has a span, has just fired and taken
\* the activity out of the registry, with no popActivity call from outside before.
C16_Witness ==
    /\ lastOp = "popTimer"
    /\ 2 \in returned
    /\ 2 \notin DOMAIN activities
    /\ \A t \in popTimers : t.id # 2
    /\ discarded = {}
    /\ debounce = 0

\* C17: a pending finish timer together with an active transaction means an empty
\* registry, so a finish timer that fires finishes no transaction whose registry
\* holds an activity; and a pushActivity call that registers an activity leaves no
\* finish timer pending.
C17_FinishTimerMeansEmptyRegistry ==
    [](
        /\ (finishTimers # {} /\ activeTransaction # 0) => activities = <<>>
        /\ \A t \in finishTimers :
              \A r \in {FinishIdleTransaction(
                           [Begin(S, "finishTimer") EXCEPT !.finishTimers = @ \ {t}])} :
                  r.lastFinish # 0 => r.activities = <<>>
        /\ \A spanContext \in BOOLEAN, autoPopAfter \in AutoPopChoices,
              hub \in BOOLEAN, u \in DrawsNow :
              \A r \in {PushActivity(Begin(S, "pushActivity"), "activity", spanContext,
                                      autoPopAfter, hub, u)} :
                  r.ret \in DOMAIN r.activities => r.finishTimers = {})

\* C17: transaction 1 had a finish timer pending, which has not fired, and the
\* pushActivity call that has just registered an activity has left none pending.
C17_Witness ==
    /\ lastOp = "pushActivity"
    /\ ret \in DOMAIN activities
    /\ activeTransaction = 1
    /\ ~activeFinished
    /\ discarded = {}
    /\ debounce # 0
    /\ finishTimers = {}

\* C18: called while undecided and with no options or a sample rate that is not a
\* number, the gate returns false and stays undecided; called again once a sample
\* rate is configured, it draws, returns and caches the outcome of the draw, which
\* is true for some draw.
C18_InvalidRateNotCached ==
    (enabled = "undefined" /\ (~options.defined \/ options.tracesSampleRate = NotANumber)) =>
        \A u \in Draws :
            /\ ~IsEnabled(S, u)
            /\ AfterIsEnabled(S, u).enabled = "undefined"
            /\ \A rate \in Rates, u2 \in Draws :
                  LET later == [AfterIsEnabled(S, u) EXCEPT
                                   !.options.defined = TRUE,
                                   !.options.tracesSampleRate = rate]
                  IN  /\ IsEnabled(later, u2) = ~(u2 > rate)
                      /\ AfterIsEnabled(later, u2).enabled =
                             IF u2 > rate THEN "false" ELSE "true"
            /\ \E o \in OptionChoices, u2 \in Draws :
                  IsEnabled([AfterIsEnabled(S, u) EXCEPT !.options = o], u2)

\* C18: startIdleTransaction has just been turned down by the gate under a sample
\* rate that is not a number, and the gate is still undecided.
C18_Witness ==
    /\ lastOp = "startIdleTransaction"
    /\ ret = 0
    /\ options.defined
    /\ options.tracesSampleRate = NotANumber
    /\ enabled = "undefined"

\* C19: a popActivity call from outside for an activity of the registry leaves no
\* auto-pop or bootstrap timer pending for that id.
C19_ManualPopCancelsAutoPop ==
    \A id \in DOMAIN activities, spanData \in SpanDataChoices, u \in DrawsNow :
        LET r == PopActivity(Begin(S, "popActivity"), id, spanData, u)
        IN  \A t \in r.popTimers : t.id # id

\* The delay a finish timer is set with.
IdleTimeout(r) == IF r.options.defined THEN r.options.idleTimeout ELSE 0

\* After a call, what is left to finish the active transaction by timer: at most one
\* finish timer, with the whole idle timeout still to run.
QuietPeriodAhead(result) ==
    \A r \in {result} :
        /\ Cardinality(r.finishTimers) <= 1
        /\ r.activeTransaction # 0 =>
              \A t \in r.finishTimers : t.remaining = IdleTimeout(r)

\* C20, as stated: after every pushActivity or popActivity call that the gate did
\* not reject, a finish timer that can finish the active transaction has the whole
\* idle timeout still to run, and there is at most one; a finish timer that fires
\* leaves none behind.
C20_QuietPeriodAfterCall ==
    /\ \A spanContext \in BOOLEAN, autoPopAfter \in AutoPopChoices,
          hub \in BOOLEAN, u \in DrawsNow :
          IsEnabled(S, u) =>
              QuietPeriodAhead(PushActivity(Begin(S, "pushActivity"), "activity",
                                            spanContext, autoPopAfter, hub, u))
    /\ \A id \in AnyId, spanData \in AnySpanData, u \in DrawsNow :
          IsEnabled(S, u) =>
              QuietPeriodAhead(PopActivity(Begin(S, "popActivity"), id, spanData, u))
    /\ \A t \in finishTimers : finishTimers \ {t} = {}

\* C20, amended: the same after every pushActivity or popActivity call that was not
\* a no-op: the gate did not reject it, a transaction was active for pushActivity,
\* and the id was not 0 for popActivity.
C20_QuietPeriodAfterWork ==
    [](
        /\ \A spanContext \in BOOLEAN, autoPopAfter \in AutoPopChoices,
              hub \in BOOLEAN, u \in DrawsNow :
              (IsEnabled(S, u) /\ activeTransaction # 0) =>
                  QuietPeriodAhead(PushActivity(Begin(S, "pushActivity"), "activity",
                                                spanContext, autoPopAfter, hub, u))
        /\ \A id \in AnyId \ {0}, spanData \in AnySpanData, u \in DrawsNow :
              IsEnabled(S, u) =>
                  QuietPeriodAhead(PopActivity(Begin(S, "popActivity"), id, spanData, u))
        /\ \A t \in finishTimers : finishTimers \ {t} = {})

\* C20: the finish timer of transaction 1 was set, cancelled by a pushActivity call
\* and set again by a popActivity call, and the second timer has just fired, once
\* its time had run out, and finished the transaction for the first time.
C20_Witness ==
    /\ lastOp = "finishTimer"
    /\ lastFinish = 1
    /\ ~refinish
    /\ debounce = 2
    /\ finishTimers = {}
    /\ 2 \in returned

====
